---- MODULE Spec2Model ----
(***************************************************************************)
(* Update pipe of the imapsql storage module                               *)
(* (internal/storage/imapsql/imapsql.go): Storage.EnableUpdatePipe, the   *)
(* "update push" goroutine it starts, Storage.Updates and Storage.Close.  *)
(*                                                                         *)
(* Go channels are modelled by what they do: a buffered channel is a      *)
(* bounded FIFO sequence (a send needs room, a receive needs an element), *)
(* the unbuffered channel updPushStop is a rendezvous (a send and a       *)
(* receive happen in one joint step, and only when one side is sending    *)
(* and the other receiving), and a select takes any one ready case.       *)
(***************************************************************************)
EXTENDS Naturals, Sequences, FiniteSets

\* ---------------------------------------------------------------- bounds
\* Events the storage engine emits during one run.
MaxEvents == 3
\* cap(upds): buffer capacity of the Event Source channel.
UpdCap == 1
\* Updates the pipe's listener receives from other processes.
MaxRemote == 1
\* Calls of EnableUpdatePipe, Updates and Close made by the node.
MaxEnable == 2
MaxUpdCalls == 2
MaxClose == 2
\* Push calls that return an error.
MaxPushErr == 1

\* ------------------------------------------------------------- constants
\* store.updPipe == nil
NoPipe == 0

\* updatepipe.BackendMode values named by the source.
Modes == {"replicate", "push"}

\* Values of store.updates: nil, the backend's own channel, or the
\* channel made by the id-th allocation of `wrapped`.
NilChan == [kind |-> "nil", id |-> 0]
RawChan == [kind |-> "raw", id |-> 0]
WrappedChan(id) == [kind |-> "wrapped", id |-> id]

\* An update received from another process by the pipe's listener; local
\* updates are 1, 2, ... in the order the backend emits them.
RemoteUpdate == 0

VARIABLES
    driver,        \* store.driver
    updPipe,       \* store.updPipe: NoPipe or the id of the pipe object
    updates,       \* store.updates
    nextId,        \* pipe objects / wrapped channels allocated so far
    updsInit,      \* the backend's updates channel exists (LazyUpdatesInit)
    upds,          \* buffer of the backend's updates channel
    backClosed,    \* Back.Close() was called: upds is closed
    emitted,       \* number of updates the backend has emitted
    wrapped,       \* buffer of the wrapped channel of the running pipe
    wrappedClosed, \* close(wrapped) was executed
    listenOn,      \* pipe ids with an active Listen
    pushOn,        \* pipe ids with InitPush done
    released,      \* pipe ids passed to updPipe.Close(), in order
    remoteCnt,     \* updates received by the listener so far
    coWriterPanic, \* the listener sent on the closed wrapped channel
    fwdPc,         \* position of the update push goroutine
    fwdMode,       \* mode captured by the goroutine
    cur,           \* u: the update the goroutine holds
    panicking,     \* the goroutine is unwinding a panic
    recovered,     \* recover() returned the panic value
    closePc,       \* position of the Close call in progress
    closeCalls,    \* Close calls started
    closeReturned, \* Close calls that returned
    handed,        \* Updates() has been called
    pushed,        \* updates passed to updPipe.Push, in order
    pushErrs,      \* updates for which Push returned an error, in order
    errLog,        \* updates reported by store.Log.Error, in order
    fwdEnq,        \* updates the goroutine sent to wrapped, in order
    delivered,     \* updates the consumer received, in order
    lastCall,      \* the last EnableUpdatePipe call: its outcome
    enableCalls,   \* EnableUpdatePipe calls made
    updRet         \* what each Updates() call returned, in order

pipeVars == <<listenOn, pushOn, released, remoteCnt, coWriterPanic>>
srcVars  == <<updsInit, upds, backClosed, emitted>>
fwdVars  == <<fwdPc, fwdMode, cur, panicking, recovered>>
clsVars  == <<closePc, closeCalls, closeReturned>>
histVars == <<pushed, pushErrs, errLog, fwdEnq, delivered>>
apiVars  == <<lastCall, enableCalls, updRet, handed>>
storeVars == <<driver, updPipe, updates, nextId>>
chanVars == <<wrapped, wrappedClosed>>

vars == <<storeVars, srcVars, chanVars, pipeVars, fwdVars, clsVars,
          histVars, apiVars>>

NoCall == [op |-> "none", res |-> "none", again |-> FALSE, consuming |-> FALSE]

Init ==
    /\ driver \in {"sqlite3", "postgres"}
    /\ updPipe = NoPipe
    /\ updates = NilChan
    /\ nextId = 0
    /\ updsInit = FALSE
    /\ upds = <<>>
    /\ backClosed = FALSE
    /\ emitted = 0
    /\ wrapped = <<>>
    /\ wrappedClosed = FALSE
    /\ listenOn = {}
    /\ pushOn = {}
    /\ released = <<>>
    /\ remoteCnt = 0
    /\ coWriterPanic = FALSE
    /\ fwdPc = "none"
    /\ fwdMode = "none"
    /\ cur = 0
    /\ panicking = FALSE
    /\ recovered = FALSE
    /\ closePc = "idle"
    /\ closeCalls = 0
    /\ closeReturned = 0
    /\ handed = FALSE
    /\ pushed = <<>>
    /\ pushErrs = <<>>
    /\ errLog = <<>>
    /\ fwdEnq = <<>>
    /\ delivered = <<>>
    /\ lastCall = NoCall
    /\ enableCalls = 0
    /\ updRet = <<>>

\* ------------------------------------------------------ EnableUpdatePipe

\* The node makes its calls one after another: no call is started while a
\* Close call is still blocked.
CallerFree == closePc = "idle"

\* Mutation: the guard against a second activation is missing.
AlreadyEnabled_Never == FALSE

\* if store.updPipe != nil { return nil }
AlreadyEnabled == updPipe # NoPipe

\* Mutation: the check for a channel already handed out is missing.
AlreadyConsuming_Never == FALSE

\* if store.updates != nil { panic(...) }
AlreadyConsuming == updates # NilChan

\* switch store.driver: only sqlite3 has an update pipe implementation
HasPipeImpl == driver = "sqlite3"

\* Mutation: wrapped is made with the capacity of upds, not twice that.
WrappedCap_Same == UpdCap

\* make(chan backend.Update, cap(upds)*2)
WrappedCap == UpdCap * 2

\* if mode == updatepipe.ModeReplicate { store.updPipe.Listen(wrapped) }
ListensIn(mode) == mode = "replicate"

\* Mutations: the mode test of the local send is inverted; it is missing.
ForwardsLocally_Inverted(mode) == mode = "push"
ForwardsLocally_Always(mode) == TRUE

\* if mode != updatepipe.ModePush { wrapped <- u }
ForwardsLocally(mode) == mode # "push"

\* Mutation: a failed activation leaves the pipe object in store.updPipe.
PipeAfterFailure_Kept == nextId + 1

\* store.updPipe = nil, after Listen or InitPush returned an error
PipeAfterFailure == NoPipe

EnableResult(res) ==
    [op |-> "enable", res |-> res, again |-> updPipe # NoPipe,
     consuming |-> updPipe = NoPipe /\ updates # NilChan]

\* One call of EnableUpdatePipe(mode). listenOk and initOk are the outcomes
\* of updPipe.Listen and updPipe.InitPush.
EnableUpdatePipe(mode, listenOk, initOk) ==
    /\ CallerFree
    /\ enableCalls < MaxEnable
    /\ enableCalls' = enableCalls + 1
    /\ UNCHANGED <<driver, upds, backClosed, emitted, released, remoteCnt,
                   coWriterPanic, cur, panicking, recovered, clsVars,
                   histVars, updRet, handed>>
    /\ IF AlreadyEnabled
       THEN /\ lastCall' = EnableResult("ok")
            /\ UNCHANGED <<updPipe, updates, nextId, updsInit, chanVars,
                           listenOn, pushOn, fwdPc, fwdMode>>
       ELSE IF AlreadyConsuming
       THEN /\ lastCall' = EnableResult("panic")
            /\ UNCHANGED <<updPipe, updates, nextId, updsInit, chanVars,
                           listenOn, pushOn, fwdPc, fwdMode>>
       ELSE /\ updsInit' = TRUE                       \* store.Back.Updates()
            /\ IF ~HasPipeImpl
               THEN /\ lastCall' = EnableResult("err_driver")
                    /\ UNCHANGED <<updPipe, updates, nextId, chanVars,
                                   listenOn, pushOn, fwdPc, fwdMode>>
               ELSE /\ nextId' = nextId + 1
                    /\ IF ListensIn(mode) /\ ~listenOk
                       THEN /\ lastCall' = EnableResult("err_listen")
                            /\ updPipe' = PipeAfterFailure
                            /\ UNCHANGED <<updates, chanVars, listenOn,
                                           pushOn, fwdPc, fwdMode>>
                       ELSE IF ~initOk
                       THEN /\ lastCall' = EnableResult("err_initpush")
                            /\ updPipe' = PipeAfterFailure
                            /\ listenOn' = IF ListensIn(mode)
                                           THEN listenOn \cup {nextId + 1}
                                           ELSE listenOn
                            /\ UNCHANGED <<updates, chanVars, pushOn,
                                           fwdPc, fwdMode>>
                       ELSE /\ lastCall' = EnableResult("ok")
                            /\ updPipe' = nextId + 1
                            /\ listenOn' = IF ListensIn(mode)
                                           THEN listenOn \cup {nextId + 1}
                                           ELSE listenOn
                            /\ pushOn' = pushOn \cup {nextId + 1}
                            /\ wrapped' = <<>>
                            /\ wrappedClosed' = FALSE
                            /\ fwdPc' = "select"      \* go func() { ... }()
                            /\ fwdMode' = mode
                            /\ updates' = WrappedChan(nextId + 1)

\* ---------------------------------------------------------------- Updates

\* Mutation: Updates() does not look at store.updates and always takes the
\* backend's own channel.
UpdatesResult_NoMemo == RawChan

\* What Updates() returns: store.updates when set, else the backend's own
\* channel.
UpdatesResult == IF updates # NilChan THEN updates ELSE RawChan

\* One call of Updates(): memoizes the backend's channel when store.updates
\* is still nil, and returns store.updates.
Updates ==
    /\ CallerFree
    /\ Len(updRet) < MaxUpdCalls
    /\ updates' = UpdatesResult
    /\ updsInit' = (updsInit \/ updates = NilChan)    \* store.Back.Updates()
    /\ updRet' = Append(updRet, [ret |-> UpdatesResult,
                                 enabled |-> updPipe # NoPipe])
    /\ handed' = TRUE
    /\ UNCHANGED <<driver, updPipe, nextId, upds, backClosed, emitted,
                   chanVars, pipeVars, fwdVars, clsVars, histVars,
                   lastCall, enableCalls>>

\* ------------------------------------------------- update push goroutine

\* select { case u := <-upds: ... } with an update buffered in upds.
FwdRecvUpdate ==
    /\ fwdPc = "select"
    /\ upds # <<>>
    /\ cur' = Head(upds)
    /\ upds' = Tail(upds)
    /\ fwdPc' = "push"
    /\ UNCHANGED <<storeVars, updsInit, backClosed, emitted, chanVars,
                   pipeVars, fwdMode, panicking, recovered, clsVars,
                   histVars, apiVars>>

\* Mutation: the nil received from the closed channel is handled like an
\* update.
FwdRecvNil_AsUpdate ==
    /\ fwdPc = "select"
    /\ upds = <<>>
    /\ backClosed
    /\ fwdPc' = "push"
    /\ UNCHANGED <<storeVars, srcVars, chanVars, pipeVars, fwdMode, cur,
                   panicking, recovered, clsVars, histVars, apiVars>>

\* select { case u := <-upds: if u == nil { ... } }: upds is closed and
\* empty, the receive yields nil.
FwdRecvNil ==
    /\ fwdPc = "select"
    /\ upds = <<>>
    /\ backClosed
    /\ fwdPc' = "wait_stop"
    /\ UNCHANGED <<storeVars, srcVars, chanVars, pipeVars, fwdMode, cur,
                   panicking, recovered, clsVars, histVars, apiVars>>

\* Mutation: a Push error makes the goroutine skip the local send.
AfterPush_SkipOnError(failed) ==
    IF ~failed /\ fwdMode # "push" THEN "enqueue" ELSE "select"

\* Mutation: a Push that returned an error is tried again.
AfterPush_RetryOnError(failed) ==
    IF failed THEN "push"
    ELSE IF fwdMode # "push" THEN "enqueue" ELSE "select"

\* Where the goroutine goes after store.updPipe.Push(u) returned, with an
\* error (failed) or without: the error is only logged.
AfterPush(failed) == IF ForwardsLocally(fwdMode) THEN "enqueue" ELSE "select"

\* store.updPipe.Push(u): returns nil, returns an error (which is logged),
\* or panics (the deferred function runs).
FwdPush(outcome) ==
    /\ fwdPc = "push"
    /\ pushed' = Append(pushed, cur)
    /\ CASE outcome = "ok" ->
              /\ fwdPc' = AfterPush(FALSE)
              /\ UNCHANGED <<pushErrs, errLog, panicking>>
         [] outcome = "err" ->
              /\ Len(pushErrs) < MaxPushErr
              /\ pushErrs' = Append(pushErrs, cur)
              /\ errLog' = Append(errLog, cur)
              /\ fwdPc' = AfterPush(TRUE)
              /\ UNCHANGED panicking
         [] outcome = "panic" ->
              /\ panicking' = TRUE
              /\ fwdPc' = "defer_ack"
              /\ UNCHANGED <<pushErrs, errLog>>
    /\ UNCHANGED <<storeVars, srcVars, chanVars, pipeVars, fwdMode, cur,
                   recovered, clsVars, fwdEnq, delivered, apiVars>>

\* wrapped <- u: needs room in the buffer.
FwdEnqueue ==
    /\ fwdPc = "enqueue"
    /\ Len(wrapped) < WrappedCap
    /\ wrapped' = Append(wrapped, cur)
    /\ fwdEnq' = Append(fwdEnq, cur)
    /\ fwdPc' = "select"
    /\ UNCHANGED <<storeVars, srcVars, wrappedClosed, pipeVars, fwdMode, cur,
                   panicking, recovered, clsVars, pushed, pushErrs, errLog,
                   delivered, apiVars>>

\* The positions at which the goroutine receives from updPushStop:
\* the select's first case, and the receive after a nil update.
FwdAwaitsStop == fwdPc \in {"select", "wait_stop"}

\* Close's store.updPushStop <- struct{}{} meets a receive of the goroutine,
\* which returns and runs its deferred function.
StopHandshake ==
    /\ closePc = "send_stop"
    /\ FwdAwaitsStop
    /\ closePc' = "wait_ack"
    /\ fwdPc' = "defer_ack"
    /\ UNCHANGED <<storeVars, srcVars, chanVars, pipeVars, fwdMode, cur,
                   panicking, recovered, closeCalls, closeReturned,
                   histVars, apiVars>>

\* Mutation: the acknowledgement is sent from inside the loop, which goes on.
AckHandshake_Continue ==
    /\ fwdPc = "defer_ack"
    /\ closePc = "wait_ack"
    /\ fwdPc' = "select"
    /\ closePc' = "release"
    /\ UNCHANGED <<storeVars, srcVars, chanVars, pipeVars, fwdMode, cur,
                   panicking, recovered, closeCalls, closeReturned,
                   histVars, apiVars>>

\* The deferred store.updPushStop <- struct{}{} meets Close's
\* <-store.updPushStop.
AckHandshake ==
    /\ fwdPc = "defer_ack"
    /\ closePc = "wait_ack"
    /\ fwdPc' = "close_wrapped"
    /\ closePc' = "release"
    /\ UNCHANGED <<storeVars, srcVars, chanVars, pipeVars, fwdMode, cur,
                   panicking, recovered, closeCalls, closeReturned,
                   histVars, apiVars>>

\* close(wrapped) in the deferred function.
FwdCloseWrapped ==
    /\ fwdPc = "close_wrapped"
    /\ wrappedClosed' = TRUE
    /\ fwdPc' = "recover"
    /\ UNCHANGED <<storeVars, srcVars, wrapped, pipeVars, fwdMode, cur,
                   panicking, recovered, clsVars, histVars, apiVars>>

\* Mutation: after recover() the goroutine starts its loop again.
FwdRecover_Restart ==
    /\ fwdPc = "recover"
    /\ recovered' = panicking
    /\ panicking' = FALSE
    /\ fwdPc' = "select"
    /\ UNCHANGED <<storeVars, srcVars, chanVars, pipeVars, fwdMode, cur,
                   clsVars, histVars, apiVars>>

\* recover() in the deferred function; the goroutine ends.
FwdRecover ==
    /\ fwdPc = "recover"
    /\ recovered' = panicking
    /\ panicking' = FALSE
    /\ fwdPc' = "exited"
    /\ UNCHANGED <<storeVars, srcVars, chanVars, pipeVars, fwdMode, cur,
                   clsVars, histVars, apiVars>>

\* ------------------------------------------------------------------ Close

\* Close() up to its first blocking point: store.Back.Close(), then either
\* return (no pipe) or go on to send the stop request.
CloseCall ==
    /\ CallerFree
    /\ closeCalls < MaxClose
    /\ closeCalls' = closeCalls + 1
    /\ backClosed' = TRUE
    /\ IF updPipe # NoPipe
       THEN closePc' = "send_stop" /\ UNCHANGED closeReturned
       ELSE closeReturned' = closeReturned + 1 /\ UNCHANGED closePc
    /\ UNCHANGED <<storeVars, updsInit, upds, emitted, chanVars, pipeVars,
                   fwdVars, histVars, apiVars>>

\* Mutation: Close does not wait for the acknowledgement before it releases
\* the pipe.
AckReceived_NotAwaited == closePc \in {"wait_ack", "release"}

\* <-store.updPushStop has returned in Close
AckReceived == closePc = "release"

\* store.updPipe.Close(); return nil
CloseRelease ==
    /\ AckReceived
    /\ released' = Append(released, updPipe)
    /\ listenOn' = listenOn \ {updPipe}
    /\ pushOn' = pushOn \ {updPipe}
    /\ closePc' = "idle"
    /\ closeReturned' = closeReturned + 1
    /\ UNCHANGED <<storeVars, srcVars, chanVars, remoteCnt, coWriterPanic,
                   fwdVars, closeCalls, histVars, apiVars>>

\* ------------------------------------------------------------ environment

\* The storage engine emits the next update into its updates channel.
Emit ==
    /\ updsInit
    /\ ~backClosed
    /\ emitted < MaxEvents
    /\ Len(upds) < UpdCap
    /\ emitted' = emitted + 1
    /\ upds' = Append(upds, emitted + 1)
    /\ UNCHANGED <<storeVars, updsInit, backClosed, chanVars, pipeVars,
                   fwdVars, clsVars, histVars, apiVars>>

\* The listener of the running pipe receives an update from another process
\* and sends it to the channel given to Listen.
ListenRecv ==
    /\ updPipe # NoPipe
    /\ updPipe \in listenOn
    /\ remoteCnt < MaxRemote
    /\ remoteCnt' = remoteCnt + 1
    /\ IF wrappedClosed
       THEN coWriterPanic' = TRUE /\ UNCHANGED wrapped
       ELSE /\ Len(wrapped) < WrappedCap
            /\ wrapped' = Append(wrapped, RemoteUpdate)
            /\ UNCHANGED coWriterPanic
    /\ UNCHANGED <<storeVars, srcVars, wrappedClosed, listenOn, pushOn,
                   released, fwdVars, clsVars, histVars, apiVars>>

\* A consumer that got the wrapped channel from Updates() receives from it.
Consume ==
    /\ handed
    /\ updates.kind = "wrapped"
    /\ wrapped # <<>>
    /\ delivered' = Append(delivered, Head(wrapped))
    /\ wrapped' = Tail(wrapped)
    /\ UNCHANGED <<storeVars, srcVars, wrappedClosed, pipeVars, fwdVars,
                   clsVars, pushed, pushErrs, errLog, fwdEnq, apiVars>>

\* A consumer that got the backend's own channel from Updates() receives
\* from it.
RawConsume ==
    /\ handed
    /\ updates = RawChan
    /\ upds # <<>>
    /\ delivered' = Append(delivered, Head(upds))
    /\ upds' = Tail(upds)
    /\ UNCHANGED <<storeVars, updsInit, backClosed, emitted, chanVars,
                   pipeVars, fwdVars, clsVars, pushed, pushErrs, errLog,
                   fwdEnq, apiVars>>

\* ---------------------------------------------------------- specification

EnableStep == \E mode \in Modes, listenOk, initOk \in BOOLEAN :
                  EnableUpdatePipe(mode, listenOk, initOk)

PushStep == \E outcome \in {"ok", "err", "panic"} : FwdPush(outcome)

Next ==
    \/ EnableStep
    \/ Updates
    \/ CloseCall
    \/ StopHandshake
    \/ AckHandshake
    \/ CloseRelease
    \/ FwdRecvUpdate
    \/ FwdRecvNil
    \/ PushStep
    \/ FwdEnqueue
    \/ FwdCloseWrapped
    \/ FwdRecover
    \/ Emit
    \/ ListenRecv
    \/ Consume
    \/ RawConsume

Spec == Init /\ [][Next]_vars

\* The Go scheduler runs every goroutine that can take a step, a blocked
\* channel operation completes once its counterpart is ready, and the
\* consumer keeps receiving.
Fairness ==
    /\ WF_vars(FwdRecvUpdate)
    /\ WF_vars(FwdRecvNil)
    /\ WF_vars(PushStep)
    /\ WF_vars(FwdEnqueue)
    /\ WF_vars(StopHandshake)
    /\ WF_vars(AckHandshake)
    /\ WF_vars(FwdCloseWrapped)
    /\ WF_vars(FwdRecover)
    /\ WF_vars(CloseRelease)
    /\ WF_vars(Consume)

FairSpec == Spec /\ Fairness

TypeOK ==
    /\ updPipe \in 0..MaxEnable
    /\ Len(upds) <= UpdCap
    /\ fwdPc \in {"none", "select", "push", "enqueue", "wait_stop",
                  "defer_ack", "close_wrapped", "recover", "exited"}
    /\ closePc \in {"idle", "send_stop", "wait_ack", "release"}

\* The node in operation with no shutdown requested: Close is never called.
LiveNext ==
    \/ EnableStep
    \/ Updates
    \/ FwdRecvUpdate
    \/ PushStep
    \/ FwdEnqueue
    \/ Emit
    \/ ListenRecv
    \/ Consume
    \/ RawConsume

LiveSpec ==
    /\ Init
    /\ [][LiveNext]_vars
    /\ WF_vars(FwdRecvUpdate)
    /\ WF_vars(PushStep)
    /\ WF_vars(FwdEnqueue)
    /\ WF_vars(Consume)

\* A node whose update stream has no reader (Updates() is never called, as
\* in a process that only pushes its updates to the pipe), from start to
\* shutdown.
ShutdownNext ==
    \/ EnableStep
    \/ CloseCall
    \/ StopHandshake
    \/ AckHandshake
    \/ CloseRelease
    \/ FwdRecvUpdate
    \/ FwdRecvNil
    \/ PushStep
    \/ FwdEnqueue
    \/ FwdCloseWrapped
    \/ FwdRecover
    \/ Emit
    \/ ListenRecv

ShutdownSpec == Init /\ [][ShutdownNext]_vars /\ Fairness

\* ================================================================= claims

\* The updates the goroutine has sent to wrapped are the first ones the
\* backend emitted, in the order it emitted them.
EnqueuedIsPrefix ==
    /\ Len(fwdEnq) <= emitted
    /\ \A i \in 1..Len(fwdEnq) : fwdEnq[i] = i

\* C1: in Replicate mode, with a consumer receiving from the wrapped channel
\* and Close never called, the sequence of updates the goroutine sends to
\* wrapped is at every moment a prefix of the sequence the backend emitted,
\* and every emitted update is eventually sent to wrapped (as long as Push
\* does not panic).
C1_ReplicateForwardsAll ==
    /\ [](fwdMode = "replicate" => EnqueuedIsPrefix)
    /\ \A n \in 1..MaxEvents :
          (fwdMode = "replicate" /\ handed /\ emitted >= n)
              ~> (Len(fwdEnq) >= n \/ panicking)

C1_Witness ==
    /\ fwdMode = "replicate"
    /\ closeCalls = 0
    /\ ~panicking
    /\ emitted = MaxEvents
    /\ fwdEnq = [i \in 1..MaxEvents |-> i]
    /\ Len(delivered) > 0

\* The goroutine has panicked at some point.
PanicSeen == panicking \/ recovered

\* C2: when the first Close call on a node with a running goroutine returns,
\* every update the backend emitted before it has been passed to Push and,
\* unless the mode is Push-only, sent to wrapped.
C2_CloseDrains ==
    (closeCalls = 1 /\ closeReturned = 1 /\ Len(released) = 1)
        => /\ Len(pushed) = emitted
           /\ (fwdMode # "push" => Len(fwdEnq) = emitted)

\* C3: once a Close call on a node with an enabled pipe has returned, a
\* further Close call returns at once: it never waits at the stop request
\* or the acknowledgement of a goroutine that has already ended.
C3_SecondCloseDoesNotBlock ==
    Len(released) >= 1 => closePc = "idle"

\* C4: if the goroutine panics in Push, a Close call that is in progress
\* (started before or after the panic) still completes the stop/acknowledge
\* handshake and returns.
C4_CloseReturnsAfterPanic ==
    [](PanicSeen /\ closePc # "idle" => <>(closeReturned = closeCalls))

\* An EnableUpdatePipe call is made in this step.
EnableCalled == enableCalls' = enableCalls + 1

\* What an EnableUpdatePipe call with no side effect leaves alone.
NodeState == <<updPipe, updates, nextId, listenOn, pushOn, released, fwdPc,
               fwdMode, wrapped, wrappedClosed, updsInit>>

C7_PushOnlyNeverEnqueues ==
    fwdMode = "push"
        => /\ fwdEnq = <<>>
           /\ wrapped = <<>>
           /\ \A i \in 1..Len(pushed) : pushed[i] = i
           /\ emitted = Len(pushed) + Len(upds)
                          + (IF fwdPc = "push" THEN 1 ELSE 0)

C7_Witness ==
    /\ fwdMode = "push"
    /\ Len(pushed) = MaxEvents
    /\ handed

\* The updates for which Push has returned (a panicking Push has not).
PushReturned ==
    IF PanicSeen THEN SubSeq(pushed, 1, Len(pushed) - 1) ELSE pushed

\* C8: when the mode is not Push-only, an update whose Push returned an
\* error is sent to wrapped like any other, in its position: the updates for
\* which Push returned are those already sent to wrapped plus the one the
\* goroutine is about to send; each Push error is logged once.
C8_PushErrorStillEnqueues ==
    (fwdMode \in Modes /\ fwdMode # "push")
        => /\ PushReturned
                = fwdEnq \o (IF fwdPc = "enqueue" THEN <<cur>> ELSE <<>>)
           /\ errLog = pushErrs
           /\ \A i \in 1..Len(pushErrs) :
                 \E j \in 1..Len(PushReturned) : PushReturned[j] = pushErrs[i]

C8_Witness ==
    /\ fwdMode = "replicate"
    /\ pushErrs = <<1>>
    /\ errLog = <<1>>
    /\ Len(fwdEnq) >= 2
    /\ fwdEnq[1] = 1
    /\ fwdPc = "select"

\* C9: every Updates() call returns the backend's own channel if no
\* EnableUpdatePipe call had succeeded before it and the wrapped channel of
\* the enabled pipe otherwise, and all calls return the same channel.
C9_UpdatesMemoized ==
    /\ \A i \in 1..Len(updRet) :
          updRet[i].ret = IF updRet[i].enabled THEN WrappedChan(updPipe)
                          ELSE RawChan
    /\ \A i, j \in 1..Len(updRet) : updRet[i].ret = updRet[j].ret
    /\ (updRet # <<>> => updates = updRet[1].ret)

C9_Witness ==
    /\ Len(updRet) = 2
    /\ updRet[1].ret.kind = "wrapped"
    /\ enableCalls = 2

\* The updates of seq that the backend emitted (not received by Listen).
LocalOnly(seq) == SelectSeq(seq, LAMBDA u : u # RemoteUpdate)

\* C10: the wrapped channel holds at most twice cap(upds) updates; the
\* goroutine's send to it can proceed exactly when it holds fewer, so with
\* the channel full the goroutine stays at the send, holding the update,
\* until a consumer receives; nothing sent is dropped or overwritten: the
\* local updates received by the consumer followed by those still buffered
\* are the updates sent.
C10_BackPressure ==
    fwdPc # "none"
        => /\ Len(wrapped) <= 2 * UpdCap
           /\ (fwdPc = "enqueue"
                 => /\ (ENABLED FwdEnqueue <=> Len(wrapped) < 2 * UpdCap)
                    /\ cur = Len(fwdEnq) + 1)
           /\ LocalOnly(delivered \o wrapped) = fwdEnq

C10_Witness ==
    /\ fwdPc = "enqueue"
    /\ Len(wrapped) = 2 * UpdCap
    /\ LocalOnly(wrapped) = wrapped
    /\ ~ENABLED FwdEnqueue

\* Positions of the goroutine after it has sent its acknowledgement.
FwdAcked == fwdPc \in {"close_wrapped", "recover", "exited"}

\* Close has received the goroutine's acknowledgement.
AckSent == closePc = "release" \/ released # <<>>

\* C11: when a Close call on a node with an enabled pipe has returned, the
\* goroutine has ended (wrapped closed, recover() run) and the pipe has been
\* released.
C11_CloseReturnsAfterExit ==
    (Len(released) >= 1 /\ closePc = "idle")
        => /\ fwdPc = "exited"
           /\ wrappedClosed
           /\ updPipe \notin listenOn \cup pushOn

\* C12: once the goroutine has sent its acknowledgement it takes no update
\* from upds, calls Push no more and sends nothing to wrapped; so after
\* Close has returned nothing more from the goroutine appears on wrapped,
\* whatever upds still holds.
C12_NothingAfterAck ==
    [][AckSent => /\ FwdAcked /\ FwdAcked'
                  /\ upds' = upds
                  /\ cur' = cur
                  /\ pushed' = pushed
                  /\ fwdEnq' = fwdEnq]_vars

C12_Witness ==
    /\ fwdPc = "exited"
    /\ Len(released) = 1
    /\ closePc = "idle"
    /\ upds # <<>>
    /\ fwdMode = "replicate"

\* C13: the goroutine exists, and so takes updates and calls Push, only
\* once InitPush has succeeded on the pipe, and as long as it has not sent
\* its acknowledgement the pipe has not been released: Close calls
\* updPipe.Close() only after it has received the acknowledgement.
C13_PushBetweenInitAndRelease ==
    /\ (fwdPc # "none" /\ ~FwdAcked)
          => /\ updPipe # NoPipe
             /\ updPipe \in pushOn
             /\ released = <<>>
    /\ (pushed # <<>> => fwdPc # "none")
    /\ (released # <<>> => FwdAcked /\ released = <<updPipe>>)

C13_Witness ==
    /\ fwdPc = "push"
    /\ closePc = "send_stop"
    /\ updPipe \in pushOn
    /\ Len(pushed) >= 1

\* C14: in every mode the updates passed to Push are exactly the updates the
\* goroutine has taken from upds, each once and in the order emitted (none
\* is passed again after an error), and an update is sent to wrapped only
\* after it was passed to Push.
C14_PushOncePerUpdate ==
    fwdMode \in Modes
        => /\ \A i \in 1..Len(pushed) : pushed[i] = i
           /\ emitted = Len(upds) + Len(pushed)
                          + (IF fwdPc = "push" THEN 1 ELSE 0)
           /\ (fwdPc = "push" => cur = Len(pushed) + 1)
           /\ Len(fwdEnq) <= Len(pushed)
           /\ \A i \in 1..Len(fwdEnq) : fwdEnq[i] = pushed[i]

C14_Witness ==
    /\ fwdMode = "replicate"
    /\ pushErrs = <<2>>
    /\ Len(pushed) = MaxEvents
    /\ Len(fwdEnq) = MaxEvents

\* upds is closed and drained: a receive from it yields nil.
SourceEnded == backClosed /\ upds = <<>>

\* C15: when upds is closed and drained the goroutine passes nothing more to
\* Push and sends nothing more to wrapped: from its select it can only go on
\* to wait for the stop request; and a Close call that has closed the
\* backend and sends the stop request then gets the acknowledgement and
\* returns, with wrapped closed by the goroutine.
C15_ClosureEndsForwarding ==
    /\ [][(SourceEnded /\ fwdPc \in {"select", "wait_stop"})
             => /\ fwdPc' \in {"select", "wait_stop", "defer_ack"}
                /\ pushed' = pushed
                /\ fwdEnq' = fwdEnq
                /\ cur' = cur]_vars
    /\ [](fwdPc = "wait_stop" => SourceEnded)
    /\ (SourceEnded /\ fwdPc \in {"select", "wait_stop"}
                    /\ closePc = "send_stop")
          ~> (closePc = "idle" /\ closeReturned = closeCalls)
    /\ (SourceEnded /\ fwdPc \in {"select", "wait_stop"}
                    /\ closePc = "send_stop")
          ~> (wrappedClosed /\ fwdPc = "exited")

C15_Witness ==
    /\ fwdPc = "exited"
    /\ closePc = "idle"
    /\ Len(released) = 1
    /\ Len(pushed) = emitted
    /\ emitted >= 2

\* The last EnableUpdatePipe call returned an error.
EnableFailed == lastCall.res \in {"err_driver", "err_listen", "err_initpush"}

\* C16: after an EnableUpdatePipe call that returned an error (no pipe for
\* the driver, Listen error, InitPush error) the node runs without a pipe:
\* store.updPipe is nil, no goroutine exists, every Updates() call returns
\* the backend's own channel and every Close call has returned without a
\* stop/acknowledge handshake.
C16_FailedEnableLeavesLocalOnly ==
    EnableFailed
        => /\ updPipe = NoPipe
           /\ fwdPc = "none"
           /\ updates \in {NilChan, RawChan}
           /\ \A i \in 1..Len(updRet) : updRet[i].ret = RawChan
           /\ closePc = "idle"
           /\ closeReturned = closeCalls
           /\ released = <<>>

C16_Witness ==
    /\ lastCall.res = "err_initpush"
    /\ Len(updRet) >= 1
    /\ closeReturned >= 1
    /\ updates = RawChan

\* C17: when a Close call returns, every pipe on which Listen or InitPush
\* succeeded has been released, and none more than once: no Listen is left
\* active, in particular not the one of a pipe whose InitPush failed.
C17_EveryPipeReleasedOnce ==
    [][closeReturned' = closeReturned + 1
          => /\ listenOn' = {}
             /\ pushOn' = {}
             /\ \A i, j \in 1..Len(released') :
                   released'[i] = released'[j] => i = j]_vars

\* Uninitialized, Running, Stopping, Stopped, in this order.
FwdState ==
    CASE fwdPc = "none" -> 0
      [] fwdPc \in {"select", "push", "enqueue", "wait_stop"} -> 1
      [] fwdPc \in {"defer_ack", "close_wrapped", "recover"} -> 2
      [] fwdPc = "exited" -> 3

C19_NoSendAfterClose ==
    /\ ~coWriterPanic
    /\ (wrappedClosed => fwdPc \in {"recover", "exited"})

\* C20: a first Close call on a node with a running goroutine that does not
\* panic returns, in every mode and also when nothing receives from wrapped.
C20_CloseReturnsWithoutReader ==
    (closePc = "send_stop" /\ closeCalls = 1)
        ~> (closeReturned = 1 \/ PanicSeen)

====
